---- MODULE Spec2Model ----
(***************************************************************************)
(* Booking admission pipeline of the concert ticketing platform.           *)
(*                                                                         *)
(*   admin-service/app.py    create_booking (POST /bookings), its          *)
(*                           send_to_queue thread, run_consumer and the    *)
(*                           consumer callback, delete_concert             *)
(*   admin-service/models.py Concert, TicketType and Booking tables        *)
(*   concert-service/app.py  the gateway's /create-booking route           *)
(*                                                                         *)
(* Values.  A JSON field of a queue message is an integer or is absent     *)
(* (message.get gives None); the absent fields of a message are listed in  *)
(* its "missing" set.  A booking id is a pair <<kind, n>>: <<"uuid", n>>   *)
(* is the n-th string made by str(uuid.uuid4()), <<"int", n>> the JSON     *)
(* integer n.  The gateway publishes {token, payload}: its five fields are *)
(* not at the top level of the JSON object (fmt = "nested").  A body that   *)
(* is not a JSON object at all has fmt = "text".                           *)
(*                                                                         *)
(* Library behaviour the model relies on.  PostgreSQL rejects a string     *)
(* that is not the text of an integer for an integer column (DataError)    *)
(* and a second row with an existing primary key (IntegrityError).         *)
(* RabbitMQ requeues the unacknowledged deliveries of a channel when the   *)
(* channel or connection goes away, and closes the channel with 406        *)
(* PRECONDITION_FAILED on a basic_ack for a delivery tag that is not       *)
(* outstanding; pika raises that as ChannelClosedByBroker, which is not an *)
(* AMQPConnectionError.                                                    *)
(***************************************************************************)
EXTENDS Integers, Sequences, FiniteSets, TLC

\* ---------------------------------------------------------------- bounds
MaxRequests == 2   \* requests made to the routes and messages published
                   \* by other producers, together
MaxFaults == 1     \* process restarts, broker outages and transient store
                   \* errors, together

\* ------------------------------------------------------- input domains
UserIds == {1, 2}
Quantities == {-1, 6, 10}

Fields == {"booking_id", "user_id", "concert_id", "ticket_type_id", "quantity"}

\* the concerts present in the store, as create_concert created them
InitialConcerts == {1}
InitialTitles == (1 :> "A")

\* the ticket types present in the store, as add_ticket_type created them
InitialTicketTypes == (1 :> [concert_id |-> 1, total_quantity |-> 10])

\* ------------------------------------------------------------- messages
Msg(b, u, c, t, q, miss, fmt, src) ==
    [booking_id |-> b, user_id |-> u, concert_id |-> c, ticket_type_id |-> t,
     quantity |-> q, missing |-> miss, fmt |-> fmt, src |-> src]

NoMsg == Msg(<<"none", 0>>, 0, 0, 0, 0, Fields, "none", "none")

\* what producers other than the two intake routes can leave on the queue:
\* integer booking ids, missing fields, bad references, any quantity
External(b, c, t, q, miss) ==
    Msg(<<"int", b>>, 1, c, t, q, miss, "flat", "external")

ExternalMessages ==
    { External(1, 1, 1, q, {}) : q \in Quantities } \cup
    { External(2, 1, 1, 6, {}) } \cup
    { External(1, 1, 1, 1, {"quantity"}),     \* no quantity
      External(1, 1, 3, 1, {}),               \* no such ticket type
      External(1, 2, 1, 1, {}),               \* ticket type of another concert
      Msg(<<"none", 0>>, 0, 0, 0, 0, Fields, "text", "external") }

VARIABLES
    concerts,       \* table concerts: the ids of its rows
    titles,         \* column concerts.title: id -> title
    serial,         \* the last id the sequences of concerts and ticket_types
                    \* gave out
    ticket_types,   \* table ticket_types: id -> [concert_id, total_quantity]
    bookings,       \* table bookings: set of rows, primary key id
    queue,          \* booking_queue: messages ready for delivery, head first
    unacked,        \* deliveries to the consumer's channel not yet acked
    broker_up,      \* rabbitmq is reachable
    conn_ok,        \* the consumer's connection and channel are usable
    pc,             \* position of run_consumer
    cur,            \* body of the delivery the callback was last invoked on
    log,            \* what the callback logged, one entry per decision
    acks,           \* basic_ack calls made for the current delivery
    threads,        \* send_to_queue threads started and not yet run
    response,       \* the last HTTP response of an intake route
    next_uuid,      \* uuids generated so far
    n_requests,     \* requests and foreign publishes so far
    n_faults,       \* faults of the environment so far
    conn_ok2,       \* a second admin-service process, when one is started:
    pc2,            \*   its connection, the position of its run_consumer,
    cur2,           \*   the delivery its callback was last invoked on and
    unacked2        \*   the unacknowledged deliveries of its channel

vars == <<concerts, titles, serial, ticket_types, bookings, queue, unacked,
          broker_up, conn_ok, pc, cur, log, acks, threads, response, next_uuid, n_requests,
          n_faults, conn_ok2, pc2, cur2, unacked2>>

store == <<concerts, titles, serial, ticket_types, bookings>>
broker == <<queue, unacked, broker_up>>
consumer == <<conn_ok, pc, cur, log, acks>>
second == <<conn_ok2, pc2, cur2, unacked2>>

NoResponse == [op |-> "none", status |-> 0, booking_id |-> <<"none", 0>>]

Init ==
    /\ concerts = InitialConcerts
    /\ titles = InitialTitles
    /\ serial = [concerts |-> 1, ticket_types |-> 1]
    /\ ticket_types = InitialTicketTypes
    /\ bookings = {}
    /\ queue = <<>>
    /\ unacked = <<>>
    /\ broker_up = TRUE
    /\ conn_ok = FALSE
    /\ pc = "connect"
    /\ cur = NoMsg
    /\ log = <<>>
    /\ acks = 0
    /\ threads = {}
    /\ response = NoResponse
    /\ next_uuid = 0
    /\ n_requests = 0
    /\ n_faults = 0
    /\ conn_ok2 = FALSE
    /\ pc2 = "off"
    /\ cur2 = NoMsg
    /\ unacked2 = <<>>

\* -------------------------------------------------------------- helpers
Request == n_requests < MaxRequests /\ n_requests' = n_requests + 1

Fault == n_faults < MaxFaults /\ n_faults' = n_faults + 1

Range(seq) == { seq[i] : i \in DOMAIN seq }

\* logger.info / warning / error of the callback (lines 1135-1175)
Logged(m, outcome) == Append(log, [msg |-> m, outcome |-> outcome])

LastOutcome == IF log = <<>> THEN "none" ELSE log[Len(log)].outcome

Respond(op, status, booking_id) ==
    [op |-> op, status |-> status, booking_id |-> booking_id]

\* ------------------------------------------------- the inventory store
RECURSIVE SumQuantity(_)
SumQuantity(rows) ==
    IF rows = {} THEN 0
    ELSE LET b == CHOOSE x \in rows : TRUE
         IN  b.quantity + SumQuantity(rows \ {b})

\* TicketType.bookings: the rows whose ticket_type_id is t
BookingsOf(t) == { b \in bookings : b.ticket_type_id = t }

\* lines 1147-1150
booked_quantity(t) ==
    SumQuantity({ b \in BookingsOf(t) : b.status \in {"confirmed", "pending"} })

\* line 1151
available_quantity(t) == ticket_types[t].total_quantity - booked_quantity(t)

\* lines 1161-1168: the row the callback adds to the session
NewBooking(m) ==
    [id |-> m.booking_id[2], user_id |-> m.user_id,
     concert_id |-> m.concert_id, ticket_type_id |-> m.ticket_type_id,
     quantity |-> m.quantity, status |-> "confirmed"]

\* a slip: concert_id and ticket_type_id are plain columns, no foreign keys
InsertResult_NoForeignKeys(m) ==
    IF m.booking_id[1] # "int" THEN "data_error"
    ELSE IF \E b \in bookings : b.id = m.booking_id[2] THEN "duplicate"
    ELSE "committed"

\* what db.session.commit() does with the row of message m: bookings.id is
\* an Integer primary key (models.py line 73), concert_id and ticket_type_id
\* are foreign keys (lines 75-76)
InsertResult(m) ==
    IF m.booking_id[1] # "int" THEN "data_error"
    ELSE IF \E b \in bookings : b.id = m.booking_id[2] THEN "duplicate"
    ELSE IF \/ m.ticket_type_id \notin DOMAIN ticket_types
            \/ m.concert_id \notin concerts THEN "fk_error"
    ELSE "committed"

\* ------------------------------------------- admin-service POST /bookings
\* A request body: concert_id, ticket_type_id and quantity as JSON values;
\* "missing" lists the absent keys, qint says whether quantity is a JSON
\* integer (when it is not, it is a non-empty string or a fraction).
Tokens == {"none", "forged", "valid"}

Req(c, t, q, qint, miss) ==
    [concert_id |-> c, ticket_type_id |-> t, quantity |-> q, qint |-> qint,
     missing |-> miss]

Requests ==
    { Req(1, 1, 6, TRUE, {}),
      Req(1, 1, 1, TRUE, {"quantity"}),      \* no quantity
      Req(1, 1, 0, TRUE, {}), Req(1, 1, -1, TRUE, {}),
      Req(1, 1, 1, FALSE, {}),               \* "1" or 1.5
      Req(1, 3, 1, TRUE, {}),                \* no such ticket type
      Req(2, 1, 1, TRUE, {}) }               \* ticket type of another concert

\* line 723: all([concert_id, ticket_type_id, quantity])
RequestComplete(r) ==
    /\ r.missing = {}
    /\ r.concert_id # 0
    /\ r.ticket_type_id # 0
    /\ (r.qint => r.quantity # 0)

\* line 726: isinstance(quantity, int) and quantity > 0
QuantityIsPositiveInt(r) == r.qint /\ r.quantity > 0

\* a slip: the concert of the ticket type is not compared
RequestTicketTypeFound_IdOnly(r) ==
    r.ticket_type_id \in DOMAIN ticket_types

\* lines 729-730: the ticket type exists and belongs to the concert
RequestTicketTypeFound(r) ==
    /\ r.ticket_type_id \in DOMAIN ticket_types
    /\ ticket_types[r.ticket_type_id].concert_id = r.concert_id

\* lines 750-756: the message send_to_queue builds
AdminMessage(booking_id, user_id, r) ==
    Msg(booking_id, user_id, r.concert_id, r.ticket_type_id, r.quantity,
        {}, "flat", "admin")

\* lines 673, 723-731: the status the route answers with
IntakeStatus(token, r) ==
    IF token = "none" THEN 401
    ELSE IF token = "forged" THEN 422
    ELSE IF ~RequestComplete(r) THEN 400
    ELSE IF ~QuantityIsPositiveInt(r) THEN 400
    ELSE IF ~RequestTicketTypeFound(r) THEN 404
    ELSE 201

\* a slip: the publish is made in the request handler, and its failure
\* fails the request
create_booking_SyncPublish(token, user_id, r) ==
    /\ Request
    /\ UNCHANGED <<store, unacked, broker_up, consumer, second, threads,
                   n_faults>>
    /\ IF IntakeStatus(token, r) # 201
       THEN /\ response' = Respond("POST /bookings", IntakeStatus(token, r),
                                   <<"none", 0>>)
            /\ UNCHANGED <<queue, next_uuid>>
       ELSE /\ next_uuid' = next_uuid + 1
            /\ IF broker_up
               THEN /\ queue' = Append(queue,
                        AdminMessage(<<"uuid", next_uuid + 1>>, user_id, r))
                    /\ response' = Respond("POST /bookings", 201,
                                           <<"uuid", next_uuid + 1>>)
               ELSE /\ queue' = queue
                    /\ response' = Respond("POST /bookings", 500,
                                           <<"none", 0>>)

\* a slip: the route compares the quantity with the capacity and writes the
\* booking itself
create_booking_DirectWrite(token, user_id, r) ==
    /\ Request
    /\ UNCHANGED <<concerts, titles, serial, ticket_types, broker, consumer, second, threads,
                   n_faults>>
    /\ IF IntakeStatus(token, r) # 201
       THEN /\ response' = Respond("POST /bookings", IntakeStatus(token, r),
                                   <<"none", 0>>)
            /\ UNCHANGED <<bookings, next_uuid>>
       ELSE IF r.quantity > available_quantity(r.ticket_type_id)
       THEN /\ response' = Respond("POST /bookings", 400, <<"none", 0>>)
            /\ UNCHANGED <<bookings, next_uuid>>
       ELSE /\ next_uuid' = next_uuid + 1
            /\ bookings' = bookings \cup
                 {[id |-> 100 + next_uuid, user_id |-> user_id,
                   concert_id |-> r.concert_id,
                   ticket_type_id |-> r.ticket_type_id,
                   quantity |-> r.quantity, status |-> "confirmed"]}
            /\ response' = Respond("POST /bookings", 201,
                                   <<"uuid", next_uuid + 1>>)

\* a slip: the booking_id is derived from the user instead of drawn anew
create_booking_IdFromUser(token, user_id, r) ==
    /\ Request
    /\ UNCHANGED <<store, broker, consumer, second, n_faults>>
    /\ IF IntakeStatus(token, r) # 201
       THEN /\ response' = Respond("POST /bookings", IntakeStatus(token, r),
                                   <<"none", 0>>)
            /\ UNCHANGED <<threads, next_uuid>>
       ELSE /\ next_uuid' = next_uuid + 1
            /\ threads' = threads \cup
                 {AdminMessage(<<"uuid", user_id>>, user_id, r)}
            /\ response' = Respond("POST /bookings", 201,
                                   <<"uuid", user_id>>)

\* lines 672-776
create_booking(token, user_id, r) ==
    /\ Request
    /\ UNCHANGED <<store, broker, consumer, second, n_faults>>
    /\ IF IntakeStatus(token, r) # 201
       THEN /\ response' = Respond("POST /bookings", IntakeStatus(token, r),
                                   <<"none", 0>>)
            /\ UNCHANGED <<threads, next_uuid>>
       ELSE /\ next_uuid' = next_uuid + 1
            /\ threads' = threads \cup
                 {AdminMessage(<<"uuid", next_uuid + 1>>, user_id, r)}
            /\ response' = Respond("POST /bookings", 201,
                                   <<"uuid", next_uuid + 1>>)

CreateBooking == \E token \in Tokens, user_id \in UserIds, r \in Requests :
    create_booking(token, user_id, r)

\* lines 736-767: the body of the background thread
send_to_queue(m) ==
    /\ m \in threads
    /\ threads' = threads \ {m}
    /\ IF broker_up
       THEN queue' = Append(queue, m)
       ELSE queue' = queue       \* the exception is logged and swallowed
    /\ UNCHANGED <<store, unacked, broker_up, consumer, second, response,
                   next_uuid, n_requests, n_faults>>

SendToQueue == \E m \in threads : send_to_queue(m)

\* --------------------------- concert-service POST /create-booking/<id>
\* The form fields are text; int() raises on a missing or non-numeric one.
GatewayForms ==
    [ticket_type_id : {1}, quantity : {-1, 1}, numeric : BOOLEAN]

\* lines 124-127: {token, payload}; none of the consumer's five keys is at
\* the top level of the JSON object
GatewayMessage(concert_id, f) ==
    Msg(<<"none", 0>>, 0, concert_id, f.ticket_type_id, f.quantity,
        Fields, "nested", "gateway")

gateway_create_booking(token, concert_id, f) ==
    /\ Request
    /\ UNCHANGED <<store, unacked, broker_up, consumer, second, threads,
                   next_uuid, n_faults>>
    /\ IF token = "none"
       THEN /\ response' = Respond("POST /create-booking", 302, <<"none", 0>>)
            /\ UNCHANGED queue
       ELSE IF ~f.numeric
       THEN /\ response' = Respond("POST /create-booking", 500, <<"none", 0>>)
            /\ UNCHANGED queue
       ELSE /\ response' = Respond("POST /create-booking", 302, <<"none", 0>>)
            /\ IF broker_up
               THEN queue' = Append(queue, GatewayMessage(concert_id, f))
               ELSE queue' = queue

GatewayCreateBooking ==
    \E token \in Tokens, concert_id \in {1}, f \in GatewayForms :
        gateway_create_booking(token, concert_id, f)

\* ------------------------------ admin-service DELETE /admin/concerts/<id>
\* lines 362-396; the relationships of Concert (models.py lines 36-37) take
\* its ticket types and its bookings with it
delete_concert(token, concert_id) ==
    /\ Request
    /\ UNCHANGED <<broker, consumer, second, threads, next_uuid, n_faults>>
    /\ IF token # "admin"
       THEN /\ response' = Respond("DELETE /admin/concerts", 403, <<"none", 0>>)
            /\ UNCHANGED store
       ELSE IF concert_id \notin concerts
       THEN /\ response' = Respond("DELETE /admin/concerts", 404, <<"none", 0>>)
            /\ UNCHANGED store
       ELSE /\ concerts' = concerts \ {concert_id}
            /\ titles' = [c \in concerts \ {concert_id} |-> titles[c]]
            /\ UNCHANGED serial
            /\ ticket_types' =
                 [t \in { x \in DOMAIN ticket_types :
                            ticket_types[x].concert_id # concert_id }
                    |-> ticket_types[t]]
            /\ bookings' = { b \in bookings : b.concert_id # concert_id }
            /\ response' = Respond("DELETE /admin/concerts", 200, <<"none", 0>>)

DeleteConcert == \E token \in {"valid", "admin"}, concert_id \in {1} :
    delete_concert(token, concert_id)

\* ------------------------------------ admin-service: the concert catalog
ConcertTitles == {"", "A", "B"}

\* lines 74-152
create_concert(token, title, date_ok) ==
    /\ Request
    /\ UNCHANGED <<ticket_types, bookings, broker, consumer, second, threads,
                   next_uuid, n_faults>>
    /\ IF token # "admin"
       THEN /\ response' = Respond("POST /admin/create_concert", 403,
                                   <<"none", 0>>)
            /\ UNCHANGED <<concerts, titles, serial>>
       ELSE IF \/ title = ""
               \/ ~date_ok
               \/ \E c \in concerts : titles[c] = title
       THEN /\ response' = Respond("POST /admin/create_concert", 400,
                                   <<"none", 0>>)
            /\ UNCHANGED <<concerts, titles, serial>>
       ELSE /\ serial' = [serial EXCEPT !.concerts = @ + 1]
            /\ concerts' = concerts \cup {serial.concerts + 1}
            /\ titles' = [c \in concerts \cup {serial.concerts + 1} |->
                             IF c \in concerts THEN titles[c] ELSE title]
            /\ response' = Respond("POST /admin/create_concert", 201,
                                   <<"none", 0>>)

CreateConcert ==
    \E token \in {"valid", "admin"}, title \in ConcertTitles,
       date_ok \in BOOLEAN : create_concert(token, title, date_ok)

\* the JSON bodies of PUT /admin/concerts/<id>: empty, or with a title
UpdateBodies ==
    {[has_title |-> FALSE, title |-> ""]} \cup
    {[has_title |-> TRUE, title |-> t] : t \in {"A", "B"}}

\* lines 268-360
update_concert(token, concert_id, data) ==
    /\ Request
    /\ UNCHANGED <<concerts, serial, ticket_types, bookings, broker, consumer,
                   second, threads, next_uuid, n_faults>>
    /\ IF token # "admin"
       THEN /\ response' = Respond("PUT /admin/concerts", 403, <<"none", 0>>)
            /\ UNCHANGED titles
       ELSE IF concert_id \notin concerts
       THEN /\ response' = Respond("PUT /admin/concerts", 404, <<"none", 0>>)
            /\ UNCHANGED titles
       ELSE IF ~data.has_title
       THEN /\ response' = Respond("PUT /admin/concerts", 400, <<"none", 0>>)
            /\ UNCHANGED titles
       ELSE /\ titles' = [titles EXCEPT ![concert_id] = data.title]
            /\ response' = Respond("PUT /admin/concerts", 200, <<"none", 0>>)

UpdateConcert ==
    \E token \in {"valid", "admin"}, concert_id \in {1, 2},
       data \in UpdateBodies : update_concert(token, concert_id, data)

\* the total_quantity of a request body; data.get gives None when the key
\* is absent
TotalQuantities ==
    {[present |-> FALSE, value |-> 0]} \cup
    {[present |-> TRUE, value |-> q] : q \in {-1, 0, 5}}

\* a slip: the sign of total_quantity is not tested
add_ticket_type_NoSignCheck(token, concert_id, total_quantity) ==
    /\ Request
    /\ UNCHANGED <<concerts, titles, bookings, broker, consumer, second,
                   threads, next_uuid, n_faults>>
    /\ IF token # "admin"
       THEN /\ response' = Respond("POST ticket_types", 403, <<"none", 0>>)
            /\ UNCHANGED <<ticket_types, serial>>
       ELSE IF concert_id \notin concerts
       THEN /\ response' = Respond("POST ticket_types", 404, <<"none", 0>>)
            /\ UNCHANGED <<ticket_types, serial>>
       ELSE IF ~total_quantity.present
       THEN /\ response' = Respond("POST ticket_types", 500, <<"none", 0>>)
            /\ UNCHANGED <<ticket_types, serial>>
       ELSE IF total_quantity.value = 0
       THEN /\ response' = Respond("POST ticket_types", 400, <<"none", 0>>)
            /\ UNCHANGED <<ticket_types, serial>>
       ELSE /\ serial' = [serial EXCEPT !.ticket_types = @ + 1]
            /\ ticket_types' =
                 [t \in DOMAIN ticket_types \cup {serial.ticket_types + 1} |->
                    IF t \in DOMAIN ticket_types THEN ticket_types[t]
                    ELSE [concert_id |-> concert_id,
                          total_quantity |-> total_quantity.value]]
            /\ response' = Respond("POST ticket_types", 201, <<"none", 0>>)

\* lines 398-466; a comparison of None with 0 raises (line 447) and the
\* route has no handler for it
add_ticket_type(token, concert_id, total_quantity) ==
    /\ Request
    /\ UNCHANGED <<concerts, titles, bookings, broker, consumer, second,
                   threads, next_uuid, n_faults>>
    /\ IF token # "admin"
       THEN /\ response' = Respond("POST ticket_types", 403, <<"none", 0>>)
            /\ UNCHANGED <<ticket_types, serial>>
       ELSE IF concert_id \notin concerts
       THEN /\ response' = Respond("POST ticket_types", 404, <<"none", 0>>)
            /\ UNCHANGED <<ticket_types, serial>>
       ELSE IF ~total_quantity.present
       THEN /\ response' = Respond("POST ticket_types", 500, <<"none", 0>>)
            /\ UNCHANGED <<ticket_types, serial>>
       ELSE IF total_quantity.value < 0 \/ total_quantity.value = 0
       THEN /\ response' = Respond("POST ticket_types", 400, <<"none", 0>>)
            /\ UNCHANGED <<ticket_types, serial>>
       ELSE /\ serial' = [serial EXCEPT !.ticket_types = @ + 1]
            /\ ticket_types' =
                 [t \in DOMAIN ticket_types \cup {serial.ticket_types + 1} |->
                    IF t \in DOMAIN ticket_types THEN ticket_types[t]
                    ELSE [concert_id |-> concert_id,
                          total_quantity |-> total_quantity.value]]
            /\ response' = Respond("POST ticket_types", 201, <<"none", 0>>)

AddTicketType ==
    \E token \in {"valid", "admin"}, concert_id \in {1, 2},
       total_quantity \in TotalQuantities :
          add_ticket_type(token, concert_id, total_quantity)

\* a slip: the report gives the capacity, without the bookings
reported_available_quantity_CapacityOnly(t) ==
    ticket_types[t].total_quantity

\* lines 200 and 263: what GET /concerts and GET /concerts/<id> report
reported_available_quantity(t) ==
    ticket_types[t].total_quantity - SumQuantity(BookingsOf(t))

TicketTypesOf(concert_id) ==
    { t \in DOMAIN ticket_types : ticket_types[t].concert_id = concert_id }

\* lines 206-266
get_concert(concert_id) ==
    /\ Request
    /\ UNCHANGED <<store, broker, consumer, second, threads, next_uuid,
                   n_faults>>
    /\ IF concert_id \notin concerts
       THEN response' = Respond("GET /concerts/<id>", 404, <<"none", 0>>)
       ELSE response' =
              [op |-> "GET /concerts/<id>", status |-> 200,
               booking_id |-> <<"none", 0>>,
               available_quantity |->
                  [t \in TicketTypesOf(concert_id) |->
                      reported_available_quantity(t)]]

GetConcert == \E concert_id \in {1, 2} : get_concert(concert_id)

\* lines 154-204
list_concerts ==
    /\ Request
    /\ UNCHANGED <<store, broker, consumer, second, threads, next_uuid,
                   n_faults>>
    /\ response' =
          [op |-> "GET /concerts", status |-> 200,
           booking_id |-> <<"none", 0>>,
           available_quantity |->
              [t \in DOMAIN ticket_types |-> reported_available_quantity(t)]]

\* ------------------------------------- other producers on booking_queue
ExternalPublish == \E m \in ExternalMessages :
    /\ Request
    /\ broker_up
    /\ queue' = Append(queue, m)
    /\ UNCHANGED <<store, unacked, broker_up, consumer, second, threads,
                   response, next_uuid, n_faults>>

\* ---------------------------------------------------------- run_consumer
prefetch_count == 1

\* lines 1114-1118, 1181-1188: connect, declare, consume; on
\* AMQPConnectionError sleep 5 seconds and try again
Connect ==
    /\ pc = "connect"
    /\ IF broker_up
       THEN /\ conn_ok' = TRUE
            /\ pc' = "idle"
       ELSE UNCHANGED <<conn_ok, pc>>
    /\ UNCHANGED <<store, broker, cur, log, acks, second, threads, response,
                   next_uuid, n_requests, n_faults>>

\* a slip: no basic_qos, so the broker pushes everything it has to the channel
Deliver_NoPrefetchLimit ==
    /\ pc = "idle"
    /\ conn_ok
    /\ queue # <<>>
    /\ unacked' = unacked \o queue
    /\ queue' = <<>>
    /\ cur' = Head(queue)
    /\ acks' = 0
    /\ pc' = "callback"
    /\ UNCHANGED <<store, broker_up, conn_ok, log, second, threads, response,
                   next_uuid, n_requests, n_faults>>

\* the broker hands the head of the queue to the consumer's channel
Deliver ==
    /\ pc = "idle"
    /\ conn_ok
    /\ queue # <<>>
    /\ Len(unacked) < prefetch_count
    /\ unacked' = Append(unacked, Head(queue))
    /\ queue' = Tail(queue)
    /\ cur' = Head(queue)
    /\ acks' = 0
    /\ pc' = "callback"
    /\ UNCHANGED <<store, broker_up, conn_ok, log, second, threads, response,
                   next_uuid, n_requests, n_faults>>

\* message.get(f) is truthy
Truthy(m, f) ==
    /\ m.fmt = "flat"
    /\ f \notin m.missing
    /\ IF f = "booking_id" THEN m.booking_id[1] = "uuid" \/ m.booking_id[2] # 0
       ELSE m[f] # 0

\* line 1134
AllFields(m) == \A f \in Fields : Truthy(m, f)

\* a slip: the concert of the ticket type is not compared with the message's
TicketTypeFound_IdOnly(m) == m.ticket_type_id \in DOMAIN ticket_types

\* lines 1140-1141
TicketTypeFound(m) ==
    /\ m.ticket_type_id \in DOMAIN ticket_types
    /\ ticket_types[m.ticket_type_id].concert_id = m.concert_id

\* a slip: the request is compared with the capacity, not with what is left
EnoughTickets_IgnoresBooked(m) ==
    ~(m.quantity > ticket_types[m.ticket_type_id].total_quantity)

\* line 1153, negated
EnoughTickets(m) == ~(m.quantity > available_quantity(m.ticket_type_id))

\* lines 1134-1159: what the checks of the callback decide for message m
Decision(m) ==
    IF m.fmt = "text" THEN "parse_error"    \* json.loads or message.get raises
    ELSE IF ~AllFields(m) THEN "malformed"
    ELSE IF ~TicketTypeFound(m) THEN "bad_reference"
    ELSE IF ~EnoughTickets(m) THEN "not_enough_tickets"
    ELSE "admit"

\* lines 1136, 1143, 1158: ch.basic_ack inside the try block, then return.
\* On a lost connection the call raises and the except clause catches it.
EarlyAck ==
    IF conn_ok
    THEN unacked' = <<>> /\ acks' = acks + 1
    ELSE UNCHANGED <<unacked, acks>>

\* a slip: the delivery is acknowledged before the booking is committed
callback_check_AckFirst ==
    /\ pc = "callback"
    /\ \/ /\ Decision(cur) = "admit"
          /\ EarlyAck
          /\ pc' = "commit"
          /\ UNCHANGED <<log, n_faults>>
       \/ /\ Decision(cur) = "parse_error"
          /\ log' = Logged(cur, "parse_error")
          /\ pc' = "finally"
          /\ UNCHANGED <<unacked, acks, n_faults>>
       \/ /\ Decision(cur) \notin {"admit", "parse_error"}
          /\ log' = Logged(cur, Decision(cur))
          /\ EarlyAck
          /\ pc' = "finally"
          /\ UNCHANGED n_faults
    /\ UNCHANGED <<store, queue, broker_up, conn_ok, cur, second, threads,
                   response, next_uuid, n_requests>>

\* a slip: a message the callback cannot use is given back to the queue
\* (basic_nack with requeue) instead of acknowledged
callback_check_Requeue ==
    /\ pc = "callback"
    /\ \/ /\ Decision(cur) = "admit"
          /\ pc' = "commit"
          /\ UNCHANGED <<queue, unacked, acks, log, n_faults>>
       \/ /\ Decision(cur) = "parse_error"
          /\ log' = Logged(cur, "parse_error")
          /\ pc' = "finally"
          /\ UNCHANGED <<queue, unacked, acks, n_faults>>
       \/ /\ Decision(cur) \notin {"admit", "parse_error"}
          /\ log' = Logged(cur, Decision(cur))
          /\ IF conn_ok
             THEN queue' = unacked \o queue /\ unacked' = <<>>
             ELSE UNCHANGED <<queue, unacked>>
          /\ pc' = "finally"
          /\ UNCHANGED <<acks, n_faults>>
       \/ /\ AllFields(cur)
          /\ Fault
          /\ log' = Logged(cur, "store_error")
          /\ pc' = "finally"
          /\ UNCHANGED <<queue, unacked, acks>>
    /\ UNCHANGED <<store, broker_up, conn_ok, cur, second, threads, response,
                   next_uuid, n_requests>>

\* lines 1123-1159: from json.loads to the early return or to the insert
callback_check ==
    /\ pc = "callback"
    /\ \/ /\ Decision(cur) = "admit"
          /\ pc' = "commit"
          /\ UNCHANGED <<unacked, acks, log, n_faults>>
       \/ /\ Decision(cur) = "parse_error"
          /\ log' = Logged(cur, "parse_error")
          /\ pc' = "finally"
          /\ UNCHANGED <<unacked, acks, n_faults>>
       \/ /\ Decision(cur) \notin {"admit", "parse_error"}
          /\ log' = Logged(cur, Decision(cur))
          /\ EarlyAck
          /\ pc' = "finally"
          /\ UNCHANGED n_faults
       \/ \* the store is unreachable for TicketType.query.get (line 1140)
          /\ AllFields(cur)
          /\ Fault
          /\ log' = Logged(cur, "store_error")
          /\ pc' = "finally"
          /\ UNCHANGED <<unacked, acks>>
    /\ UNCHANGED <<store, queue, broker_up, conn_ok, cur, second, threads,
                   response, next_uuid, n_requests>>

\* a slip: the row is written as pending before the commit that confirms it,
\* and a commit that fails leaves it there
callback_commit_PendingFirst ==
    /\ pc = "commit"
    /\ \/ /\ log' = Logged(cur, InsertResult(cur))
          /\ bookings' = IF InsertResult(cur) = "committed"
                         THEN bookings \cup {NewBooking(cur)}
                         ELSE bookings
          /\ UNCHANGED n_faults
       \/ /\ Fault
          /\ log' = Logged(cur, "store_error")
          /\ bookings' = bookings \cup
                           {[NewBooking(cur) EXCEPT !.status = "pending"]}
    /\ pc' = "finally"
    /\ UNCHANGED <<concerts, titles, serial, ticket_types, broker, conn_ok, cur, acks, second,
                   threads, response, next_uuid, n_requests>>

\* lines 1161-1176: add the row and commit; any exception is logged and the
\* session rolled back
callback_commit ==
    /\ pc = "commit"
    /\ \/ /\ log' = Logged(cur, InsertResult(cur))
          /\ bookings' = IF InsertResult(cur) = "committed"
                         THEN bookings \cup {NewBooking(cur)}
                         ELSE bookings
          /\ UNCHANGED n_faults
       \/ \* the store is unreachable for the commit (line 1171)
          /\ Fault
          /\ log' = Logged(cur, "store_error")
          /\ UNCHANGED bookings
    /\ pc' = "finally"
    /\ UNCHANGED <<concerts, titles, serial, ticket_types, broker, conn_ok, cur, acks, second,
                   threads, response, next_uuid, n_requests>>

\* line 1179: ch.basic_ack in the finally clause, on every path
callback_finally ==
    /\ pc = "finally"
    /\ IF ~conn_ok
       THEN \* the call raises: an AMQPConnectionError is caught at line 1186,
            \* any other pika exception ends run_consumer
            /\ pc' \in {"connect", "dead"}
            /\ UNCHANGED <<unacked, acks, conn_ok>>
       ELSE IF unacked # <<>>
       THEN /\ unacked' = <<>>
            /\ acks' = acks + 1
            /\ pc' = "idle"
            /\ UNCHANGED conn_ok
       ELSE \* the delivery tag is no longer outstanding: the broker closes
            \* the channel, start_consuming raises ChannelClosedByBroker,
            \* which line 1186 does not catch
            /\ acks' = acks + 1
            /\ conn_ok' = FALSE
            /\ pc' = "dead"
            /\ UNCHANGED unacked
    /\ UNCHANGED <<store, queue, broker_up, cur, log, second, threads,
                   response, next_uuid, n_requests, n_faults>>

\* lines 1120-1123: callback calls create_app() before its try block, and
\* create_app ends with db.create_all() (lines 59-60), which asks the store.
\* When the store is unreachable the exception leaves callback and
\* start_consuming; it is no AMQPConnectionError, so line 1186 does not catch
\* it and run_consumer ends with the delivery unacknowledged.  The thread
\* prints the traceback; the broker requeues the delivery when the abandoned
\* connection goes.
callback_create_app ==
    /\ pc = "callback"
    /\ Fault
    /\ log' = Logged(cur, "uncaught")
    /\ queue' = unacked \o queue
    /\ unacked' = <<>>
    /\ conn_ok' = FALSE
    /\ pc' = "dead"
    /\ UNCHANGED <<store, broker_up, cur, acks, second, threads, response,
                   next_uuid, n_requests>>

\* ----------------------------------------------------------- environment
\* rabbitmq becomes unreachable: the durable queue keeps its messages and
\* takes back the unacknowledged ones; a consumer waiting in
\* start_consuming gets an AMQPConnectionError (lines 1186-1188)
BrokerOutage ==
    /\ broker_up
    /\ Fault
    /\ broker_up' = FALSE
    /\ conn_ok' = FALSE
    /\ conn_ok2' = FALSE
    /\ queue' = unacked \o unacked2 \o queue
    /\ unacked' = <<>>
    /\ unacked2' = <<>>
    /\ pc' = IF pc = "idle" THEN "connect" ELSE pc
    /\ pc2' = IF pc2 = "idle" THEN "connect" ELSE pc2
    /\ UNCHANGED <<store, cur, cur2, log, acks, threads, response, next_uuid,
                   n_requests>>

BrokerRecover ==
    /\ ~broker_up
    /\ broker_up' = TRUE
    /\ UNCHANGED <<store, queue, unacked, consumer, second, threads, response,
                   next_uuid, n_requests, n_faults>>

\* the admin-service process is killed and started again (lines 1191-1196):
\* its threads are gone, the broker requeues what was not acknowledged
ProcessRestart ==
    /\ Fault
    /\ queue' = unacked \o queue
    /\ unacked' = <<>>
    /\ threads' = {}
    /\ conn_ok' = FALSE
    /\ pc' = "connect"
    /\ cur' = NoMsg
    /\ acks' = 0
    /\ UNCHANGED <<store, broker_up, log, second, response, next_uuid,
                   n_requests>>

Next ==
    \/ CreateBooking
    \/ SendToQueue
    \/ GatewayCreateBooking
    \/ ExternalPublish
    \/ DeleteConcert
    \/ Connect
    \/ Deliver
    \/ callback_create_app
    \/ callback_check
    \/ callback_commit
    \/ callback_finally
    \/ BrokerOutage
    \/ BrokerRecover
    \/ ProcessRestart

Spec == Init /\ [][Next]_vars

\* ------------------------------------------ a second admin-service process
\* __main__ (lines 1191-1196) starts one run_consumer thread per process; a
\* second process runs the same run_consumer on a channel of its own, and
\* the broker hands each message of booking_queue to one of the two.
StartSecond ==
    /\ pc2 = "off"
    /\ pc2' = "connect"
    /\ UNCHANGED <<store, broker, consumer, conn_ok2, cur2, unacked2, threads,
                   response, next_uuid, n_requests, n_faults>>

Connect2 ==
    /\ pc2 = "connect"
    /\ IF broker_up
       THEN /\ conn_ok2' = TRUE
            /\ pc2' = "idle"
       ELSE UNCHANGED <<conn_ok2, pc2>>
    /\ UNCHANGED <<store, broker, consumer, cur2, unacked2, threads, response,
                   next_uuid, n_requests, n_faults>>

Deliver2 ==
    /\ pc2 = "idle"
    /\ conn_ok2
    /\ queue # <<>>
    /\ Len(unacked2) < prefetch_count
    /\ unacked2' = Append(unacked2, Head(queue))
    /\ queue' = Tail(queue)
    /\ cur2' = Head(queue)
    /\ pc2' = "callback"
    /\ UNCHANGED <<store, unacked, broker_up, consumer, conn_ok2, threads,
                   response, next_uuid, n_requests, n_faults>>

EarlyAck2 ==
    IF conn_ok2 THEN unacked2' = <<>> ELSE UNCHANGED unacked2

callback_check2 ==
    /\ pc2 = "callback"
    /\ \/ /\ Decision(cur2) = "admit"
          /\ pc2' = "commit"
          /\ UNCHANGED <<unacked2, log, n_faults>>
       \/ /\ Decision(cur2) = "parse_error"
          /\ log' = Logged(cur2, "parse_error")
          /\ pc2' = "finally"
          /\ UNCHANGED <<unacked2, n_faults>>
       \/ /\ Decision(cur2) \notin {"admit", "parse_error"}
          /\ log' = Logged(cur2, Decision(cur2))
          /\ EarlyAck2
          /\ pc2' = "finally"
          /\ UNCHANGED n_faults
       \/ /\ AllFields(cur2)
          /\ Fault
          /\ log' = Logged(cur2, "store_error")
          /\ pc2' = "finally"
          /\ UNCHANGED unacked2
    /\ UNCHANGED <<store, queue, unacked, broker_up, conn_ok, pc, cur, acks,
                   conn_ok2, cur2, threads, response, next_uuid, n_requests>>

callback_commit2 ==
    /\ pc2 = "commit"
    /\ \/ /\ log' = Logged(cur2, InsertResult(cur2))
          /\ bookings' = IF InsertResult(cur2) = "committed"
                         THEN bookings \cup {NewBooking(cur2)}
                         ELSE bookings
          /\ UNCHANGED n_faults
       \/ /\ Fault
          /\ log' = Logged(cur2, "store_error")
          /\ UNCHANGED bookings
    /\ pc2' = "finally"
    /\ UNCHANGED <<concerts, titles, serial, ticket_types, broker, conn_ok, pc, cur, acks,
                   conn_ok2, cur2, unacked2, threads, response, next_uuid,
                   n_requests>>

callback_finally2 ==
    /\ pc2 = "finally"
    /\ IF ~conn_ok2
       THEN /\ pc2' \in {"connect", "dead"}
            /\ UNCHANGED <<unacked2, conn_ok2>>
       ELSE IF unacked2 # <<>>
       THEN /\ unacked2' = <<>>
            /\ pc2' = "idle"
            /\ UNCHANGED conn_ok2
       ELSE /\ conn_ok2' = FALSE
            /\ pc2' = "dead"
            /\ UNCHANGED unacked2
    /\ UNCHANGED <<store, broker, consumer, cur2, threads, response, next_uuid,
                   n_requests, n_faults>>

callback_create_app2 ==
    /\ pc2 = "callback"
    /\ Fault
    /\ log' = Logged(cur2, "uncaught")
    /\ queue' = unacked2 \o queue
    /\ unacked2' = <<>>
    /\ conn_ok2' = FALSE
    /\ pc2' = "dead"
    /\ UNCHANGED <<store, unacked, broker_up, conn_ok, pc, cur, acks, cur2,
                   threads, response, next_uuid, n_requests>>

NextTwo ==
    \/ Next
    \/ StartSecond
    \/ Connect2
    \/ Deliver2
    \/ callback_create_app2
    \/ callback_check2
    \/ callback_commit2
    \/ callback_finally2

TwoConsumers == Init /\ [][NextTwo]_vars

\* --------------------------------------- the store and all its writers
\* the administrators' routes, the two reports, the consumer and what other
\* producers publish
NextCatalog ==
    \/ CreateConcert
    \/ UpdateConcert
    \/ DeleteConcert
    \/ AddTicketType
    \/ GetConcert
    \/ list_concerts
    \/ ExternalPublish
    \/ Connect
    \/ Deliver
    \/ callback_create_app
    \/ callback_check
    \/ callback_commit
    \/ callback_finally

Catalog == Init /\ [][NextCatalog]_vars

\* ------------------------------------------------------------- scheduling
\* The consumer thread, the publishing threads and the broker keep running:
\* a step of theirs that stays possible is eventually taken.  Requests,
\* outages and restarts happen or not.
Fairness ==
    /\ WF_vars(SendToQueue)
    /\ WF_vars(Connect)
    /\ WF_vars(Deliver)
    /\ WF_vars(callback_check)
    /\ WF_vars(callback_commit)
    /\ WF_vars(callback_finally)
    /\ WF_vars(BrokerRecover)

FairSpec == Spec /\ Fairness

TypeOK ==
    /\ pc \in {"connect", "idle", "callback", "commit", "finally", "dead"}
    /\ pc2 \in {"off", "connect", "idle", "callback", "commit", "finally",
               "dead"}
    /\ Len(unacked) <= prefetch_count
    /\ Len(unacked2) <= prefetch_count
    /\ acks \in 0..2

\* =================================================================== claims
InBroker(m) == m \in Range(queue) \cup Range(unacked)

\* the rows of the store that carry the booking id of message m
RowsFor(m) ==
    { b \in bookings : m.booking_id[1] = "int" /\ b.id = m.booking_id[2] }

\* the callback reached the insert for the entry: the message was complete,
\* its ticket type found and the quantity within what was available
ReachedInsert(e) == e.outcome \in {"committed", "duplicate", "data_error"}

ValidRequest(r) ==
    RequestComplete(r) /\ QuantityIsPositiveInt(r) /\ RequestTicketTypeFound(r)

\* C1: no overselling.  In every reachable state, for every ticket type, the
\* quantities of its confirmed and pending bookings add up to at most its
\* total_quantity.
C1_NoOverselling ==
    \A t \in DOMAIN ticket_types :
        SumQuantity({ b \in bookings :
                        /\ b.ticket_type_id = t
                        /\ b.status \in {"confirmed", "pending"} })
            <= ticket_types[t].total_quantity

\* a ticket type is sold out and the consumer has turned a later request down
C1_Witness ==
    /\ bookings # {}
    /\ booked_quantity(1) = ticket_types[1].total_quantity
    /\ LastOutcome = "not_enough_tickets"

\* C4: acknowledge after commit.  While the callback has not finished the
\* store transaction of a delivery, no basic_ack has been sent for it and the
\* broker still holds the message; a delivery leaves the unacknowledged set
\* only by an acknowledgement sent after the decision to discard or after
\* the commit, or by going back to the head of the queue.
C4_AckAfterCommit ==
    /\ [](pc \in {"callback", "commit"} => (acks = 0 /\ InBroker(cur)))
    /\ [][(unacked # <<>> /\ unacked' = <<>>) =>
            \/ /\ acks' = acks + 1
               /\ \/ pc = "finally"
                  \/ pc = "callback" /\ Decision(cur) # "admit"
            \/ /\ queue' # <<>>
               /\ Head(queue') = unacked[1]]_vars

\* the process died between the commit and the acknowledgement: the booking
\* is in the store and its message is back in the queue
C4_Witness ==
    /\ n_faults > 0
    /\ \E m \in Range(queue) :
          /\ RowsFor(m) # {}
          /\ \E i \in DOMAIN log : log[i].msg = m /\ log[i].outcome = "committed"

\* C8: accepted without waiting.  A valid POST /bookings with a verified
\* token answers 201 with the new booking_id and leaves the publish to the
\* background thread, whether or not the broker is reachable; a publish that
\* fails ends the thread and changes neither the response nor the consumer.
C8_AcceptedWithoutWaiting ==
    [][/\ (n_requests' # n_requests /\ response'.op = "POST /bookings") =>
            \A u \in UserIds, r \in Requests :
               (ValidRequest(r) /\ create_booking("valid", u, r)) =>
                  /\ response' = Respond("POST /bookings", 201,
                                         <<"uuid", next_uuid + 1>>)
                  /\ queue' = queue
                  /\ AdminMessage(<<"uuid", next_uuid + 1>>, u, r)
                        \in threads'
       /\ \A m \in threads :
            (~broker_up /\ send_to_queue(m)) =>
                /\ response' = response
                /\ queue' = queue
                /\ m \notin threads'
                /\ pc' = pc]_vars

\* a request was accepted while the broker was down and its message is gone
C8_Witness ==
    /\ response.status = 201
    /\ ~broker_up
    /\ threads = {}
    /\ \A m \in Range(queue) \cup Range(unacked) :
          m.booking_id # response.booking_id
    /\ \A i \in DOMAIN log : log[i].msg.booking_id # response.booking_id

C2_IdempotentRedelivery ==
    \A i, j \in DOMAIN log :
        (/\ i < j
         /\ log[i].msg = log[j].msg
         /\ ReachedInsert(log[i])
         /\ ReachedInsert(log[j])) => Cardinality(RowsFor(log[j].msg)) = 1

\* C3: a discarded message does not block the queue.  The step of the
\* callback that follows the discard of a malformed message inserts no row
\* and leaves run_consumer running, so that it takes the messages behind.
C3_DiscardDoesNotBlock ==
    [][(/\ pc = "finally"
        /\ conn_ok
        /\ LastOutcome = "malformed"
        /\ log[Len(log)].msg = cur) =>
            (pc' # "dead" /\ bookings' = bookings)]_vars

\* C5: admission boundary.  With the store reachable, the callback commits
\* the confirmed booking of a complete message with a found ticket type
\* exactly when its quantity is at most total_quantity minus the booked
\* quantity.
C5_AdmissionBoundary ==
    [][/\ (/\ pc = "commit" /\ pc' = "finally" /\ n_faults' = n_faults
           /\ TicketTypeFound(cur)) =>
            /\ EnoughTickets(cur)
            /\ NewBooking(cur) \in RowsFor(cur)'
       /\ ~(bookings' \subseteq bookings) =>
            /\ pc = "commit"
            /\ TicketTypeFound(cur)
            /\ EnoughTickets(cur)]_vars

\* C6: processing order decides the winner.  When, without faults, the
\* callback has handled two complete messages of quantity 6 with different
\* booking ids for the ticket type of capacity 10, the first one it handled
\* is confirmed, the second is discarded for lack of tickets, and the store
\* holds one booking.
C6_FirstDequeuedWins ==
    (/\ n_faults = 0
     /\ Len(log) = 2
     /\ \A i \in {1, 2} :
           /\ AllFields(log[i].msg)
           /\ log[i].msg.ticket_type_id = 1
           /\ log[i].msg.concert_id = 1
           /\ log[i].msg.quantity = 6
     /\ log[1].msg.booking_id # log[2].msg.booking_id) =>
        /\ log[1].outcome = "committed"
        /\ log[2].outcome = "not_enough_tickets"
        /\ Cardinality(bookings) = 1

\* C7: intake validation.  Every message that an intake route of the
\* repository has handed to a publishing thread or to the queue carries a
\* quantity of at least 1.
C7_IntakeValidation ==
    \A m \in threads \cup Range(queue) \cup Range(unacked) :
        m.src \in {"admin", "gateway"} => m.quantity >= 1

\* C10: retry on transient store failure.  When the callback has returned
\* after a transient store error, the broker still holds the message, for a
\* later delivery.
C10_RetryOnStoreFailure ==
    (/\ pc = "idle"
     /\ LastOutcome = "store_error"
     /\ log[Len(log)].msg = cur) => InBroker(cur)

\* C11: the consumer never exits.  In every reachable state run_consumer is
\* connecting, waiting for a delivery or inside the callback: its loop has
\* not ended.
C11_ConsumerNeverExits == pc # "dead"

\* C12: every published message is eventually settled.  With the broker,
\* the publishing threads and the consumer scheduled fairly and no outage,
\* restart or store error ever happening, whenever the broker holds a
\* message, a later state has the queue and the set of unacknowledged
\* deliveries empty.
C12_EventuallySettled ==
    \/ <>(n_faults > 0)
    \/ (queue # <<>> \/ unacked # <<>>) ~> (queue = <<>> /\ unacked = <<>>)

\* C13: queue message format.  Every message that POST /bookings or the
\* gateway's /create-booking route has handed to a publishing thread or to
\* the queue has booking_id, user_id, concert_id, ticket_type_id and quantity
\* at the top level of its JSON object, so that the callback takes it as
\* well-formed.
C13_MessageFormat ==
    \A m \in threads \cup Range(queue) \cup Range(unacked) :
        m.src \in {"admin", "gateway"} => AllFields(m)

\* C14: only authenticated callers enqueue.  A request to POST /bookings or
\* to the gateway's /create-booking route that carries no token, or a token
\* whose signature does not verify, starts no publishing thread and puts no
\* message on the queue.
C14_OnlyAuthenticatedEnqueue ==
    [][n_requests' # n_requests =>
         \A token \in {"none", "forged"} :
            /\ \A u \in UserIds, r \in Requests :
                  create_booking(token, u, r) =>
                      (threads' = threads /\ queue' = queue)
            /\ \A f \in GatewayForms :
                  gateway_create_booking(token, 1, f) => queue' = queue]_vars

\* C15: each delivery is acknowledged exactly once.  When the callback
\* returns on a working connection, whatever path it took, it has called
\* basic_ack one time for the delivery.
C15_AckExactlyOnce ==
    [][(/\ pc = "finally"
        /\ pc' # "finally"
        /\ conn_ok
        /\ n_faults' = n_faults) => acks' = 1]_vars

\* C16: two consumers.  With a second admin-service process consuming from
\* booking_queue, the booked quantity of every ticket type still never
\* exceeds its total_quantity.
C16_TwoConsumersNoOverselling ==
    \A t \in DOMAIN ticket_types :
        booked_quantity(t) <= ticket_types[t].total_quantity

\* C17: one message in flight.  With the single consumer, the broker never
\* has more than one delivery unacknowledged, that delivery is the message
\* the callback is working on, and the callback is given another message
\* only when it has returned from the one before.
C17_OneInFlight ==
    /\ [](/\ Len(unacked) <= 1
          /\ unacked # <<>> =>
                /\ pc \in {"callback", "commit", "finally"}
                /\ unacked = <<cur>>)
    /\ [][cur' # cur =>
            \/ pc = "idle" /\ pc' = "callback"
            \/ cur' = NoMsg]_vars

\* the callback is about to insert the booking of its delivery while another
\* message waits in the queue
C17_Witness ==
    /\ pc = "commit"
    /\ unacked = <<cur>>
    /\ queue # <<>>
    /\ Head(queue) # cur

\* C18: rejected requests are never persisted.  Every row of bookings has
\* status confirmed and is the row the callback committed for a message it
\* logged as created; a row is added only by that commit; a step in which
\* the callback discards a message or fails to insert it leaves bookings as
\* it was.
C18_RejectedNeverPersisted ==
    /\ [](\A b \in bookings :
            /\ b.status = "confirmed"
            /\ \E i \in DOMAIN log :
                  /\ log[i].outcome = "committed"
                  /\ NewBooking(log[i].msg) = b)
    /\ [][/\ ~(bookings' \subseteq bookings) =>
               /\ log' = Logged(cur, "committed")
               /\ bookings' = bookings \cup {NewBooking(cur)}
          /\ (log' # log /\ LastOutcome' # "committed") =>
               bookings' = bookings]_vars

\* the store holds a confirmed booking, and the message the callback turned
\* down for lack of tickets has left no row
C18_Witness ==
    /\ bookings # {}
    /\ \E i \in DOMAIN log :
          /\ log[i].outcome = "not_enough_tickets"
          /\ \A b \in bookings : b.id # log[i].msg.booking_id[2]

\* the outcomes the callback logs for a message it cannot read
Poison == {"malformed", "parse_error"}

\* the positions of a sequence of messages that hold an unreadable message
PoisonIn(seq) == { i \in DOMAIN seq : Decision(seq[i]) \in Poison }

\* C19: poison-message policy.  On a working connection the callback takes
\* a message with a missing field out of the broker in the step that finds
\* the field missing, and a body that is not a JSON object in the finally
\* clause; neither step puts the message back on the queue or changes
\* bookings; and as long as there is no outage, restart or store error, no
\* such message is handed to the callback a second time.
C19_PoisonMessagePolicy ==
    /\ [][/\ (/\ pc = "callback" /\ pc' = "finally"
               /\ Decision(cur) \in Poison) =>
                /\ bookings' = bookings
                /\ queue' = queue
                /\ (Decision(cur) = "malformed" /\ conn_ok) => unacked' = <<>>
          /\ (/\ pc = "finally" /\ pc' # "finally"
               /\ Decision(cur) \in Poison
               /\ n_faults' = n_faults) =>
                /\ bookings' = bookings
                /\ queue' = queue
                /\ conn_ok => unacked' = <<>>]_vars
    /\ [](n_faults = 0 =>
            Cardinality({ i \in DOMAIN log : log[i].outcome \in Poison })
              + Cardinality(PoisonIn(queue))
              + (IF pc = "callback" THEN Cardinality(PoisonIn(unacked)) ELSE 0)
                <= n_requests)

\* the callback has discarded a message without quantity: the message is
\* gone from the broker, no row was written, and the next message waits
C19_Witness ==
    /\ LastOutcome = "malformed"
    /\ log[Len(log)].msg = cur
    /\ cur.fmt = "flat"
    /\ acks >= 1
    /\ unacked = <<>>
    /\ bookings = {}
    /\ queue # <<>>
    /\ cur \notin Range(queue)

\* the message names a ticket type that the store does not hold, or one of
\* another concert than the message's
BadReference(m) ==
    \/ m.ticket_type_id \notin DOMAIN ticket_types
    \/ ticket_types[m.ticket_type_id].concert_id # m.concert_id

\* C20: bad reference is terminal.  When the callback looks up the ticket
\* type of a complete message and the store has none with that id, or one of
\* another concert, it logs that, returns without touching bookings or the
\* queue and, on a working connection, takes the message out of the broker;
\* when the ticket type goes away between the lookup and the insert, the
\* insert fails and bookings stays as it was; and as long as there is no
\* outage, restart or store error, no message is handed to the callback a
\* second time.
C20_BadReferenceTerminal ==
    /\ [][/\ (/\ pc = "callback" /\ pc' # "callback"
               /\ n_faults' = n_faults
               /\ AllFields(cur) /\ BadReference(cur)) =>
                /\ pc' = "finally"
                /\ log' = Logged(cur, "bad_reference")
                /\ bookings' = bookings
                /\ queue' = queue
                /\ conn_ok => unacked' = <<>>
          /\ (/\ pc = "commit" /\ pc' # "commit"
               /\ BadReference(cur)) =>
                bookings' = bookings]_vars
    /\ [](n_faults = 0 =>
            Len(log) + Len(queue)
              + (IF pc \in {"callback", "commit"} THEN Len(unacked) ELSE 0)
                <= n_requests)

\* POST /bookings accepted a request, the concert was deleted with its ticket
\* types, and the callback has discarded the message: it is gone from the
\* broker and the store holds no booking
C20_Witness ==
    /\ LastOutcome = "bad_reference"
    /\ log[Len(log)].msg = cur
    /\ cur.src = "admin"
    /\ concerts = {}
    /\ acks >= 1
    /\ ~InBroker(cur)
    /\ bookings = {}

\* the outcomes of an exception raised while the callback handles a message
Errors == {"parse_error", "store_error", "data_error", "duplicate", "fk_error",
           "uncaught"}

\* C21: consumer errors never loop.  Every exception raised while the
\* callback handles a message is caught: the step leaves bookings as it was
\* and goes on to the finally clause; on a working connection the finally
\* clause then acknowledges the delivery, once, without putting it back on
\* the queue, and run_consumer goes on to wait for the next message.
C21_ErrorsNeverLoop ==
    /\ [][/\ (log' # log /\ LastOutcome' \in Errors) =>
               /\ bookings' = bookings
               /\ pc' = "finally"
          /\ (/\ pc = "finally" /\ pc' # "finally"
               /\ LastOutcome \in Errors
               /\ conn_ok
               /\ n_faults' = n_faults) =>
               /\ unacked' = <<>>
               /\ queue' = queue
               /\ acks' = 1
               /\ pc' = "idle"]_vars
    /\ []((/\ pc = "idle" /\ conn_ok
           /\ LastOutcome \in Errors
           /\ log[Len(log)].msg = cur) => unacked = <<>>)

\* C22: bookings are permanent.  A row that the store holds is there,
\* unchanged, after every step.
C22_BookingsPermanent == [][bookings \subseteq bookings']_vars

\* C25: positive quantities in the store.  Every booking row has a quantity
\* of one or more, whatever messages were published to the queue.
C25_PositiveQuantities == \A b \in bookings : b.quantity >= 1

\* C23: capacity is fixed and non-negative.  Every ticket type of the store
\* has a total_quantity of zero or more; a ticket type appears only with the
\* 201 answer of add_ticket_type; and a ticket type that stays in the store
\* keeps its total_quantity and its concert.
C23_CapacityFixed ==
    /\ [](\A t \in DOMAIN ticket_types : ticket_types[t].total_quantity >= 0)
    /\ [][ticket_types' # ticket_types =>
            /\ \A t \in DOMAIN ticket_types \cap DOMAIN ticket_types' :
                  ticket_types'[t] = ticket_types[t]
            /\ \A t \in DOMAIN ticket_types' \ DOMAIN ticket_types :
                  /\ response' = Respond("POST ticket_types", 201,
                                         <<"none", 0>>)
                  /\ t > serial.ticket_types]_vars

\* an administrator has added a second ticket type, and the consumer has
\* since committed a booking
C23_Witness ==
    /\ 2 \in DOMAIN ticket_types
    /\ ticket_types[2].total_quantity = 5
    /\ bookings # {}

\* the booking ids that a request, a message or a log line has carried
SeenIds ==
    { m.booking_id : m \in threads \cup Range(queue) \cup Range(unacked) }
      \cup { log[i].msg.booking_id : i \in DOMAIN log }
      \cup { response.booking_id }

\* how many publishing threads hold, and how many messages of the broker
\* carry, the booking id
InThreads(id) == Cardinality({ m \in threads : m.booking_id = id })

InBrokerCount(id) ==
    Cardinality({ i \in DOMAIN queue : queue[i].booking_id = id })
      + Cardinality({ i \in DOMAIN unacked : unacked[i].booking_id = id })

\* C24: fresh idempotency ids.  A booking_id is drawn only for a 201 answer
\* of POST /bookings, and is one that no answer, message or log line has
\* carried before,
\* and exactly one publishing thread is started for it; a message with this
\* id enters the broker only from that thread, which is then gone, and only
\* when the consumer has not seen it; so no id is ever held by two threads
\* or two messages.
C24_FreshIds ==
    /\ [][/\ next_uuid' # next_uuid =>
               /\ response'.op = "POST /bookings"
               /\ response'.status = 201
               /\ response'.booking_id \notin SeenIds
               /\ \E n \in 1..(next_uuid + 1) :
                     /\ response'.booking_id = <<"uuid", n>>
                     /\ InThreads(<<"uuid", n>>)' = 1
                     /\ InBrokerCount(<<"uuid", n>>)' = 0
          /\ threads' # threads =>
               \A n \in 1..next_uuid :
                  InBrokerCount(<<"uuid", n>>)' > InBrokerCount(<<"uuid", n>>)
                    => /\ InThreads(<<"uuid", n>>) = 1
                       /\ InThreads(<<"uuid", n>>)' = 0
                       /\ InBrokerCount(<<"uuid", n>>)' = 1
                       /\ \A i \in DOMAIN log :
                             log[i].msg.booking_id # <<"uuid", n>>
          /\ threads' = threads =>
               \A n \in 1..next_uuid :
                  InBrokerCount(<<"uuid", n>>)' <= InBrokerCount(<<"uuid", n>>)
         ]_vars
    /\ [](\A n \in 1..next_uuid :
             InThreads(<<"uuid", n>>) + InBrokerCount(<<"uuid", n>>) <= 1)

\* two requests were accepted, the message of the first has been published
\* and handled, the second is on the queue
C24_Witness ==
    /\ next_uuid = 2
    /\ \E i \in DOMAIN log : log[i].msg.booking_id = <<"uuid", 1>>
    /\ InBrokerCount(<<"uuid", 2>>) = 1
    /\ threads = {}

\* C26: intake reference check.  In every state, POST /bookings with a
\* verified token and a complete request for a positive whole quantity, for
\* a ticket type that does not exist or that belongs to another concert, is
\* answered 404, and with no token is it answered 201.  A step that answers
\* POST /bookings puts nothing on the queue; without the 201 answer it
\* starts no publishing thread and draws no booking_id; and a thread is only
\* ever started for a message whose ticket type exists and belongs to its
\* concert.
C26_IntakeReferenceCheck ==
    /\ [](\A r \in Requests :
            BadReference(r) =>
               /\ \A token \in Tokens : IntakeStatus(token, r) # 201
               /\ (RequestComplete(r) /\ QuantityIsPositiveInt(r)) =>
                     IntakeStatus("valid", r) = 404)
    /\ [][(n_requests' # n_requests /\ response'.op = "POST /bookings") =>
            /\ response' # response => queue' = queue
            /\ response'.status # 201 =>
                  threads' = threads /\ next_uuid' = next_uuid
            /\ \A m \in threads' \ threads : ~BadReference(m)]_vars

\* the concert was deleted with its ticket types, and a request that would
\* have been accepted before was answered 404 and left no message
C26_Witness ==
    /\ response = Respond("POST /bookings", 404, <<"none", 0>>)
    /\ concerts = {}
    /\ threads = {}
    /\ queue = <<>>
    /\ unacked = <<>>
    /\ next_uuid = 0

C28_ReportedAvailability ==
    /\ [](\A t \in DOMAIN ticket_types :
            /\ reported_available_quantity(t) = available_quantity(t)
            /\ reported_available_quantity(t) >= 0)
    /\ [][(/\ response' # response
           /\ response'.op \in {"GET /concerts", "GET /concerts/<id>"}
           /\ response'.status = 200) =>
              \A t \in DOMAIN response'.available_quantity :
                 /\ t \in DOMAIN ticket_types
                 /\ response'.available_quantity[t] = available_quantity(t)
                 /\ response'.available_quantity[t] >= 0]_vars

\* the consumer has committed a booking of 6 of the 10 tickets and
\* GET /concerts reports 4 for the ticket type
C28_Witness ==
    /\ response.op = "GET /concerts"
    /\ \E b \in bookings : b.ticket_type_id = 1 /\ b.quantity = 6
    /\ 1 \in DOMAIN response.available_quantity
    /\ response.available_quantity[1] = 4

\* C29: referential integrity of bookings.  In every state every booking
\* row names a concert and a ticket type that the store holds, and the
\* ticket type is one of that concert.
C29_ReferentialIntegrity ==
    \A b \in bookings :
        /\ b.concert_id \in concerts
        /\ b.ticket_type_id \in DOMAIN ticket_types
        /\ ticket_types[b.ticket_type_id].concert_id = b.concert_id

\* the callback admitted a message, an administrator deleted the concert
\* before the commit, and the insert was refused
C29_Witness ==
    /\ LastOutcome = "fk_error"
    /\ concerts = {}
    /\ ticket_types = <<>>
    /\ bookings = {}

\* C30: unique concert titles.  In every state no two concerts of the store
\* have the same title.
C30_UniqueTitles ==
    \A c1, c2 \in concerts : titles[c1] = titles[c2] => c1 = c2

====
